---- MODULE Spec2Model ----
(***************************************************************************)
(* Merit proof-of-growth: the reward engine (pog/reward.cpp), the referral *)
(* entity's deserialization (primitives/referral.h), the referral store's  *)
(* ANV table and lottery reservoir (refdb.h) and the collection of vault   *)
(* out-points (wallet/vault.cpp).                                          *)
(*                                                                         *)
(* All amounts in the model stay below 2^31.  There the int64 (CAmount)    *)
(* products of the code do not overflow, every int64 -> double conversion  *)
(* and double product of RewardAmbassadors is exact (below 2^53), and the  *)
(* rounded double quotient truncates to the same integer as the exact one  *)
(* (quotients below 2^43 lie further than half an ulp from the next        *)
(* integer).                                                               *)
(***************************************************************************)
EXTENDS Integers, Sequences, FiniteSets, TLC

VARIABLES
    pc,       \* position of the caller: "start" before a call, then where the last call ended
    call,     \* the operation called and its arguments
    ret,      \* what the call produced: a value, or a fault that ends the process
    anv_db,   \* the store's ANV table: the set of AddressANV records, one per address
    lottery_heap,  \* the store's reservoir: the set of lottery entrants
    undos,    \* the caller's LotteryUndos vector, oldest record first
    history,  \* per undo record, the reservoir as it was before that mutation
    offered,  \* the candidates offered to the reservoir while nothing was undone
    undone    \* whether UndoLotteryEntrant has run

callVars == <<pc, call, ret>>
storeVars == <<anv_db, lottery_heap, undos, history, offered, undone>>
vars == <<pc, call, ret, anv_db, lottery_heap, undos, history, offered, undone>>

None == "none"

(***************************************************************************)
(* Bounds of the model.                                                    *)
(***************************************************************************)
MaxWinners == 3
MaxANV == 2
MaxReward == 2
MaxInviteHeight == 6
MaxBlockWindow == 3
MaxInvitesPerBlock == 3
MaxInvites == 3
MaxConfirmed == 3
MaxAddresses == 4
MaxKey == 3
MaxReservoirSize == 2
MaxUndos == 3
MaxOffered == 4
MaxDelta == 2
MaxStoredANV == 3
MaxMempoolOutputs == 2
MaxChainOutputs == 2
MaxIndex == 1

(***************************************************************************)
(* C++ arithmetic.                                                         *)
(***************************************************************************)
Abs(x) == IF x < 0 THEN -x ELSE x

\* Integer division of C++: the quotient is truncated toward zero.
CDiv(a, b) ==
    IF (a < 0) = (b < 0) THEN Abs(a) \div Abs(b) ELSE -(Abs(a) \div Abs(b))

\* A double holding the quotient n/d of two exactly represented values, kept
\* as the pair <<n, d>>; an integer n converts to <<n, 1>>.
ToDouble(n) == <<n, 1>>
DoubleMul(x, y) == <<x[1] * y[1], x[2] * y[2]>>
DoubleDiv(x, y) == <<x[1] * y[2], x[2] * y[1]>>
\* Conversion double -> CAmount discards the fractional part.
DoubleToCAmount(x) == CDiv(x[1], x[2])

Min(a, b) == IF a < b THEN a ELSE b

RECURSIVE Accumulate(_, _, _)
\* std::accumulate over a vector with the field-adding lambda.
Accumulate(seq, field, acc) ==
    IF seq = <<>> THEN acc
    ELSE Accumulate(Tail(seq), field, acc + Head(seq)[field])

RECURSIVE CopyIf(_, _)
\* std::copy_if with back_inserter, keeping amount > 0.
CopyIf(seq, out) ==
    IF seq = <<>> THEN out
    ELSE CopyIf(Tail(seq),
                IF Head(seq).amount > 0 THEN Append(out, Head(seq)) ELSE out)

(***************************************************************************)
(* pog::RewardAmbassadors                                                  *)
(***************************************************************************)
FixedPrecisionAs(height) == IF height <= 16000 THEN 100 ELSE 1000

FixedPrecision(height) == IF height < 16000 THEN 100 ELSE 1000

TotalANV(winners) == Accumulate(winners, "anv", 0)

\* double percent = (v.anv*fixed_precision) / total_anv;
Percent(v, total_anv, fixed_precision) ==
    ToDouble(CDiv(v.anv * fixed_precision, total_anv))

WinnerRewardStalePrecision(v, total_reward, total_anv, fixed_precision) ==
    DoubleToCAmount(
        DoubleDiv(DoubleMul(ToDouble(total_reward),
                            Percent(v, total_anv, fixed_precision)),
                  ToDouble(100)))

WinnerRewardRoundedUp(v, total_reward, total_anv, fixed_precision) ==
    LET q == DoubleDiv(DoubleMul(ToDouble(total_reward),
                                 Percent(v, total_anv, fixed_precision)),
                       ToDouble(fixed_precision))
    IN  IF q[1] % q[2] = 0 THEN DoubleToCAmount(q) ELSE DoubleToCAmount(q) + 1

\* CAmount reward = (total_reward * percent) / fixed_precision;
WinnerReward(v, total_reward, total_anv, fixed_precision) ==
    DoubleToCAmount(
        DoubleDiv(DoubleMul(ToDouble(total_reward),
                            Percent(v, total_anv, fixed_precision)),
                  ToDouble(fixed_precision)))

\* The std::transform over the winners: one AmbassadorReward per winner.
TransformRewards(winners, total_reward, total_anv, fixed_precision) ==
    [i \in 1..Len(winners) |->
        [address_type |-> winners[i].address_type,
         address |-> winners[i].address,
         amount |-> WinnerReward(winners[i], total_reward, total_anv,
                                 fixed_precision)]]

FilterRewards(rewards) == CopyIf(rewards, <<>>)

\* How a call ends: a failed assert aborts the process, a return hands back a value.
Fault(what) == [fault |-> what]
Returns(value) == [value |-> value]
IsFault(r) == "fault" \in DOMAIN r

RewardAmbassadors(height, winners, total_reward) ==
    LET fixed_precision == FixedPrecision(height)
        total_anv == TotalANV(winners)
        rewards == TransformRewards(winners, total_reward, total_anv,
                                    fixed_precision)
        filtered_rewards == FilterRewards(rewards)
        total_rewarded == Accumulate(filtered_rewards, "amount", 0)
        remainder == total_reward - total_rewarded
    IN  IF \E i \in 1..Len(rewards) : ~(rewards[i].amount <= total_reward)
        THEN Fault("assert(reward <= total_reward)")
        ELSE IF ~(total_rewarded >= 0)
        THEN Fault("assert(total_rewarded >= 0)")
        ELSE IF ~(total_rewarded <= total_reward)
        THEN Fault("assert(total_rewarded <= total_reward)")
        ELSE IF ~(remainder >= 0)
        THEN Fault("assert(remainder >= 0)")
        ELSE IF ~(remainder <= total_reward)
        THEN Fault("assert(remainder <= total_reward)")
        ELSE [winners |-> filtered_rewards, remainder |-> remainder]

(***************************************************************************)
(* Inputs of RewardAmbassadors: the small amounts and the amounts of the   *)
(* documented scenario (ANV 600 and 400, reward 1000, height 20000).       *)
(***************************************************************************)
Destinations ==
    {[address_type |-> 1, address |-> "A"], [address_type |-> 2, address |-> "B"]}

ANVs == (0..MaxANV) \cup {400, 600}
TotalRewards == (0..MaxReward) \cup {1000}
Heights == {15999, 16000, 20000}

AddressANVs ==
    {[address_type |-> d.address_type, address |-> d.address, anv |-> a] :
        d \in Destinations, a \in ANVs}

WinnerLists == UNION {[1..n -> AddressANVs] : n \in 0..MaxWinners}

\* The store as constructed: no ANV record, an empty reservoir, nothing to undo.
StoreIdle ==
    /\ anv_db = {}
    /\ lottery_heap = {}
    /\ undos = <<>>
    /\ history = <<>>
    /\ offered = {}
    /\ undone = FALSE

\* The integer division by total_anv is undefined for a non-empty list whose
\* ANVs sum to zero; such a call is left out of the inputs.
InitAmbassadors ==
    /\ pc = "start"
    /\ \E h \in Heights, w \in WinnerLists, t \in TotalRewards :
          /\ (w = <<>> \/ TotalANV(w) > 0)
          /\ call = [op |-> "RewardAmbassadors", height |-> h, winners |-> w,
                     total_reward |-> t]
    /\ ret = None
    /\ StoreIdle

CallRewardAmbassadors ==
    /\ pc = "start"
    /\ call.op = "RewardAmbassadors"
    /\ ret' = RewardAmbassadors(call.height, call.winners, call.total_reward)
    /\ pc' = "done"
    /\ UNCHANGED <<call, storeVars>>

NextAmbassadors == CallRewardAmbassadors

SpecAmbassadors == InitAmbassadors /\ [][NextAmbassadors]_vars

(***************************************************************************)
(* pog::ComputeTotalInviteLotteryWinners                                   *)
(***************************************************************************)
\* const auto period = (height - start_block) / daedalus_block_window;
Period(height, params) ==
    CDiv(height - params.start_block, params.daedalus_block_window)

VelocityUncapped(lottery) ==
    IF lottery.invites_created > 0
    THEN CDiv(lottery.invites_used * 100, lottery.invites_created)
    ELSE 100

\* invites_created > 0 ? std::min(scaled_invites_used / invites_created, 100) : 100
Velocity(lottery) ==
    IF lottery.invites_created > 0
    THEN Min(CDiv(lottery.invites_used * 100, lottery.invites_created), 100)
    ELSE 100

ComputeTotalInviteLotteryWinners(height, lottery, params) ==
    IF Period(height, params) < 1
    THEN Returns(params.daedalus_max_invites_per_block)
    ELSE IF ~(lottery.invites_used >= 0)
    THEN Fault("assert(lottery.invites_used >= 0)")
    ELSE IF lottery.invites_used = 0
    THEN (IF lottery.invites_created = 0 THEN Returns(1) ELSE Returns(0))
    ELSE LET total_winners ==
                 CDiv(params.daedalus_max_invites_per_block * Velocity(lottery), 100)
         IN  IF ~(total_winners >= 0
                    /\ total_winners <= params.daedalus_max_invites_per_block)
             THEN Fault("assert(total_winners >= 0 && total_winners <= max)")
             ELSE Returns(total_winners)

(***************************************************************************)
(* pog::RewardInvites                                                      *)
(***************************************************************************)
INVITES_PER_WINNER == 1

RewardInvitesCounted(winners) ==
    Returns([i \in 1..Len(winners) |->
                [address_type |-> winners[i].address_type,
                 address |-> winners[i].address,
                 invites |-> Len(winners)]])

RewardInvites(winners) ==
    LET rewards == [i \in 1..Len(winners) |->
                       [address_type |-> winners[i].address_type,
                        address |-> winners[i].address,
                        invites |-> INVITES_PER_WINNER]]
    IN  IF ~(Len(rewards) = Len(winners))
        THEN Fault("assert(rewards.size() == winners.size())")
        ELSE Returns(rewards)

(***************************************************************************)
(* Inputs of the invite lottery.  The deployment starts at block 2, so the *)
(* heights cover blocks before the start, the bootstrap window and later   *)
(* periods; invites_used ranges over -1 too, which the code asserts out.   *)
(***************************************************************************)
InviteHeights == 0..MaxInviteHeight
StartBlocks == {0, 2}
InviteCounts == 0..MaxInvites

ConsensusParams ==
    [start_block : StartBlocks,
     daedalus_block_window : 1..MaxBlockWindow,
     daedalus_max_invites_per_block : 0..MaxInvitesPerBlock]

InviteLotteryParams ==
    [invites_created : InviteCounts, invites_used : InviteCounts \cup {-1}]

ConfirmedAddresses ==
    UNION {[1..n -> Destinations \cup {[address_type |-> 3, address |-> "C"]}] :
              n \in 0..MaxConfirmed}

InitInvites ==
    /\ pc = "start"
    /\ \/ \E h \in InviteHeights, l \in InviteLotteryParams, p \in ConsensusParams :
             call = [op |-> "ComputeTotalInviteLotteryWinners", height |-> h,
                     lottery |-> l, params |-> p]
       \/ \E w \in ConfirmedAddresses :
             call = [op |-> "RewardInvites", winners |-> w]
    /\ ret = None
    /\ StoreIdle

CallComputeTotalInviteLotteryWinners ==
    /\ pc = "start"
    /\ call.op = "ComputeTotalInviteLotteryWinners"
    /\ ret' = ComputeTotalInviteLotteryWinners(call.height, call.lottery, call.params)
    /\ pc' = "done"
    /\ UNCHANGED <<call, storeVars>>

CallRewardInvites ==
    /\ pc = "start"
    /\ call.op = "RewardInvites"
    /\ ret' = RewardInvites(call.winners)
    /\ pc' = "done"
    /\ UNCHANGED <<call, storeVars>>

NextInvites == CallComputeTotalInviteLotteryWinners \/ CallRewardInvites

SpecInvites == InitInvites /\ [][NextInvites]_vars

(***************************************************************************)
(* referral::UnserializeReferral and the deserializing constructors        *)
(***************************************************************************)
\* CPubKey::IsValid: whether the decoded key bytes form a well-formed key.
IsValid(pubkey) == pubkey.well_formed

\* Reads the six fields in order, then assert(ref.pubkey.IsValid()).
UnserializeReferral(s) ==
    LET ref == [version |-> s.version,
                parentAddress |-> s.parentAddress,
                addressType |-> s.addressType,
                address |-> s.address,
                pubkey |-> s.pubkey,
                signature |-> s.signature]
    IN  IF ~IsValid(ref.pubkey)
        THEN Fault("assert(ref.pubkey.IsValid())")
        ELSE Returns(ref)

\* MutableReferral(deserialize_type, Stream&): Unserialize(s).
MutableReferralDeserialize(s) == UnserializeReferral(s)

\* Referral(const MutableReferral&): the fields and the cached content hash.
ReferralFromMutable(ref) ==
    [version |-> ref.version,
     parentAddress |-> ref.parentAddress,
     addressType |-> ref.addressType,
     address |-> ref.address,
     pubkey |-> ref.pubkey,
     signature |-> ref.signature,
     hash |-> <<ref.version, ref.parentAddress, ref.addressType, ref.address,
                ref.pubkey.vch, ref.signature>>]

\* Referral(deserialize_type, Stream& s) : Referral(MutableReferral(deserialize, s))
ReferralDeserialize(s) ==
    LET m == MutableReferralDeserialize(s)
    IN  IF IsFault(m) THEN m ELSE Returns(ReferralFromMutable(m.value))

PubKeys ==
    {[vch |-> "key1", well_formed |-> TRUE],
     [vch |-> "key2", well_formed |-> TRUE],
     [vch |-> "junk", well_formed |-> FALSE],
     [vch |-> "", well_formed |-> FALSE]}

Streams ==
    [version : {0, 1},
     parentAddress : {"A", "B"},
     addressType : {1, 2, 3},
     address : {"B", "C"},
     pubkey : PubKeys,
     signature : {"sig1", "sig2"}]

InitReferral ==
    /\ pc = "start"
    /\ \E op \in {"MutableReferral(deserialize)", "Referral(deserialize)"},
          s \in Streams :
          call = [op |-> op, s |-> s]
    /\ ret = None
    /\ StoreIdle

DeserializeMutableReferral ==
    /\ pc = "start"
    /\ call.op = "MutableReferral(deserialize)"
    /\ ret' = MutableReferralDeserialize(call.s)
    /\ pc' = "done"
    /\ UNCHANGED <<call, storeVars>>

DeserializeReferral ==
    /\ pc = "start"
    /\ call.op = "Referral(deserialize)"
    /\ ret' = ReferralDeserialize(call.s)
    /\ pc' = "done"
    /\ UNCHANGED <<call, storeVars>>

NextReferral == DeserializeMutableReferral \/ DeserializeReferral

SpecReferral == InitReferral /\ [][NextReferral]_vars

(***************************************************************************)
(* referral::ReferralsViewDB: the ANV table and the lottery reservoir.     *)
(* Addresses are 1..MaxAddresses; the all-zero uint160 is the empty one.   *)
(***************************************************************************)
EmptyAddress == 0
StoreAddresses == 1..MaxAddresses
AddressTypeOf(address) == IF address % 2 = 1 THEN 1 ELSE 2
WeightedKeys == 1..MaxKey

\* GetANV: the record stored for the address, if any.
GetANV(db, address) == {r \in db : r.address = address}

\* UpdateANV: add the signed delta to the stored ANV of the address; an absent
\* record is created with the delta as its value.
UpdateANV(db, address_type, address, delta) ==
    IF GetANV(db, address) = {}
    THEN db \cup {[address_type |-> address_type, address |-> address,
                    anv |-> delta]}
    ELSE {IF r.address = address THEN [r EXCEPT !.anv = r.anv + delta] ELSE r :
             r \in db}

\* LotteryEntrant: std::tuple<pog::WeightedKey, char, Address>.
LotteryEntrant(key, address_type, address) ==
    [key |-> key, address_type |-> address_type, address |-> address]

LotteryUndo(replaced_key, replaced_address_type, replaced_address, replaced_with) ==
    [replaced_key |-> replaced_key,
     replaced_address_type |-> replaced_address_type,
     replaced_address |-> replaced_address,
     replaced_with |-> replaced_with]

GetLotteryHeapSize(heap) == Cardinality(heap)

\* GetMinLotteryEntrant: an entrant of least key (any of them when keys tie).
GetMinLotteryEntrant(heap) == {m \in heap : \A e \in heap : m.key <= e.key}

InsertLotteryEntrant(heap, key, address_type, address) ==
    heap \cup {LotteryEntrant(key, address_type, address)}

\* RemoveFromLottery(const Address&): drop the entrant holding the address.
RemoveFromLottery(heap, address) == {e \in heap : e.address # address}

AddAddressToLotteryOffByOne(heap, min, key, address_type, address, max_reservoir_size) ==
    IF GetLotteryHeapSize(heap) <= max_reservoir_size
    THEN [heap |-> InsertLotteryEntrant(heap, key, address_type, address),
          undos |-> <<LotteryUndo(key, address_type, address, EmptyAddress)>>,
          at |-> "inserted"]
    ELSE IF min \in heap /\ min.key < key
    THEN [heap |-> InsertLotteryEntrant(heap \ {min}, key, address_type, address),
          undos |-> <<LotteryUndo(min.key, min.address_type, min.address, address)>>,
          at |-> "replaced"]
    ELSE [heap |-> heap, undos |-> <<>>, at |-> "discarded"]

AddAddressToLotteryTieDisplaces(heap, min, key, address_type, address, max_reservoir_size) ==
    IF GetLotteryHeapSize(heap) < max_reservoir_size
    THEN [heap |-> InsertLotteryEntrant(heap, key, address_type, address),
          undos |-> <<LotteryUndo(key, address_type, address, EmptyAddress)>>,
          at |-> "inserted"]
    ELSE IF min \in heap /\ min.key <= key
    THEN [heap |-> InsertLotteryEntrant(heap \ {min}, key, address_type, address),
          undos |-> <<LotteryUndo(min.key, min.address_type, min.address, address)>>,
          at |-> "replaced"]
    ELSE [heap |-> heap, undos |-> <<>>, at |-> "discarded"]

\* AddAddressToLottery with the weighted key already computed and min the
\* current minimum entrant: below capacity the candidate is inserted and the
\* undo record has replaced_with empty; at capacity it replaces the minimum only
\* if its key is greater, the undo record holding the evicted entrant; otherwise
\* nothing changes and no undo record is produced.
AddAddressToLottery(heap, min, key, address_type, address, max_reservoir_size) ==
    IF GetLotteryHeapSize(heap) < max_reservoir_size
    THEN [heap |-> InsertLotteryEntrant(heap, key, address_type, address),
          undos |-> <<LotteryUndo(key, address_type, address, EmptyAddress)>>,
          at |-> "inserted"]
    ELSE IF min \in heap /\ min.key < key
    THEN [heap |-> InsertLotteryEntrant(heap \ {min}, key, address_type, address),
          undos |-> <<LotteryUndo(min.key, min.address_type, min.address, address)>>,
          at |-> "replaced"]
    ELSE [heap |-> heap, undos |-> <<>>, at |-> "discarded"]

UndoLotteryEntrantNoAddOnly(heap, undo) ==
    InsertLotteryEntrant(RemoveFromLottery(heap, undo.replaced_with),
                         undo.replaced_key, undo.replaced_address_type,
                         undo.replaced_address)

\* UndoLotteryEntrant: remove the entrant that was inserted and reinsert the
\* evicted one, if any.
UndoLotteryEntrant(heap, undo) ==
    IF undo.replaced_with = EmptyAddress
    THEN RemoveFromLottery(heap, undo.replaced_address)
    ELSE InsertLotteryEntrant(RemoveFromLottery(heap, undo.replaced_with),
                              undo.replaced_key, undo.replaced_address_type,
                              undo.replaced_address)

NoEntrant == LotteryEntrant(0, 0, EmptyAddress)

InitStore ==
    /\ pc = "start"
    /\ call = [op |-> None]
    /\ ret = None
    /\ StoreIdle

\* One updateANV call of block connection or disconnection.
CallUpdateANV ==
    \E address \in StoreAddresses, delta \in (-MaxDelta)..MaxDelta :
        LET db == UpdateANV(anv_db, AddressTypeOf(address), address, delta)
        IN  /\ \A r \in db : Abs(r.anv) <= MaxStoredANV
            /\ anv_db' = db
            /\ call' = [op |-> "UpdateANV", address |-> address, delta |-> delta]
            /\ ret' = Returns(TRUE)
            /\ pc' = "updated"
            /\ UNCHANGED <<lottery_heap, undos, history, offered, undone>>

NextANV == CallUpdateANV

SpecANV == InitStore /\ [][NextANV]_vars

\* One addAddressToLottery call of block connection, for an address that is
\* not in the reservoir, with the weighted key the sampling hash yields.
CallAddAddressToLottery ==
    \E address \in StoreAddresses, key \in WeightedKeys,
       min \in (IF lottery_heap = {} THEN {NoEntrant}
                 ELSE GetMinLotteryEntrant(lottery_heap)) :
        LET r == AddAddressToLottery(lottery_heap, min, key, AddressTypeOf(address),
                                     address, MaxReservoirSize)
        IN  /\ \A e \in lottery_heap : e.address # address
            /\ Len(undos) + Len(r.undos) <= MaxUndos
            /\ undone \/ Cardinality(offered) < MaxOffered
            /\ lottery_heap' = r.heap
            /\ undos' = undos \o r.undos
            /\ history' = IF r.undos = <<>> THEN history
                           ELSE Append(history, lottery_heap)
            /\ offered' = IF undone THEN offered
                           ELSE offered \cup
                                   {LotteryEntrant(key, AddressTypeOf(address), address)}
            /\ pc' = r.at
            /\ UNCHANGED <<call, ret, anv_db, undone>>

\* Block disconnection: the newest undo record is applied and discarded.
CallUndoLotteryEntrant ==
    /\ undos # <<>>
    /\ lottery_heap' = UndoLotteryEntrant(lottery_heap, undos[Len(undos)])
    /\ undos' = SubSeq(undos, 1, Len(undos) - 1)
    /\ history' = SubSeq(history, 1, Len(history) - 1)
    /\ offered' = {}
    /\ undone' = TRUE
    /\ pc' = "undone"
    /\ UNCHANGED <<call, ret, anv_db>>

NextLottery == CallAddAddressToLottery \/ CallUndoLotteryEntrant

SpecLottery == InitStore /\ [][NextLottery]_vars

(***************************************************************************)
(* vault::FindUnspentVaultCoins: collecting the out-points of an address   *)
(* from the mempool and from the chain.                                    *)
(***************************************************************************)
\* COutPoint{txhash, index}, and the null out-point that resize() fills in.
COutPoint(hash, n) == [hash |-> hash, n |-> n]
NullOutPoint == COutPoint("0", -1)

RECURSIVE SpendingPrevHashes(_)
\* The first loop of FilterMempoolOutputs: prevhash of every spending entry.
SpendingPrevHashes(outputs) ==
    IF outputs = <<>> THEN {}
    ELSE (IF Head(outputs).first.spending THEN {Head(outputs).second.prevhash}
          ELSE {})
         \cup SpendingPrevHashes(Tail(outputs))

\* FilterMempoolOutputs: append to filtered the outputs whose transaction is
\* not spent by another mempool entry.
FilterMempoolOutputs(outputs, filtered) ==
    LET spending == SpendingPrevHashes(outputs)
    IN  filtered \o SelectSeq(outputs, LAMBDA out : out.first.txhash \notin spending)

\* ConvertToVaultOutputs: copy the non-spending transactions, resize outputs
\* by their number, then std::transform them to out-points written from
\* outputs.begin() on.
ConvertToVaultOutputs(txns, outputs) ==
    LET utxos == SelectSeq(txns, LAMBDA t : ~t.first.spending)
        resized == outputs \o [i \in 1..Len(utxos) |-> NullOutPoint]
    IN  [i \in 1..Len(resized) |->
            IF i <= Len(utxos)
            THEN COutPoint(utxos[i].first.txhash, utxos[i].first.index)
            ELSE resized[i]]

TxHashes == {"t1", "t2"}

\* An address-index entry of the mempool: a received output, or the spending
\* of the output of prevhash.
MempoolOutputs ==
    {[first |-> [txhash |-> h, index |-> i, spending |-> FALSE],
      second |-> [prevhash |-> "0"]] : h \in TxHashes, i \in 0..MaxIndex}
    \cup
    {[first |-> [txhash |-> h, index |-> i, spending |-> TRUE],
      second |-> [prevhash |-> p]] : h \in TxHashes, i \in 0..MaxIndex, p \in TxHashes}

\* An address-index entry of the chain with its amount.
ChainOutputs ==
    {[first |-> [txhash |-> h, index |-> i, spending |-> sp], second |-> 1] :
        h \in TxHashes, i \in 0..MaxIndex, sp \in BOOLEAN}

InitVault ==
    /\ pc = "start"
    /\ \E m \in UNION {[1..n -> MempoolOutputs] : n \in 0..MaxMempoolOutputs},
          c \in UNION {[1..n -> ChainOutputs] : n \in 0..MaxChainOutputs} :
          call = [op |-> "FindUnspentVaultCoins", mempool_outputs |-> m,
                  chain_outputs |-> c]
    /\ ret = None
    /\ StoreIdle

\* FindUnspentVaultCoins up to the first ConvertToVaultOutputs: the mempool
\* outputs are filtered and converted into the empty outputs.
GetOutputsFromMempool ==
    /\ pc = "start"
    /\ call.op = "FindUnspentVaultCoins"
    /\ LET filtered_mempool_outputs ==
               FilterMempoolOutputs(call.mempool_outputs, <<>>)
       IN  ret' = [filtered_mempool_outputs |-> filtered_mempool_outputs,
                   mempool_converted |->
                       ConvertToVaultOutputs(filtered_mempool_outputs, <<>>),
                   outputs |-> ConvertToVaultOutputs(filtered_mempool_outputs, <<>>)]
    /\ pc' = "mempool"
    /\ UNCHANGED <<call, storeVars>>

\* The second ConvertToVaultOutputs: the chain outputs are converted into the
\* same outputs vector.
GetOutputsFromChain ==
    /\ pc = "mempool"
    /\ call.op = "FindUnspentVaultCoins"
    /\ ret' = [ret EXCEPT
                  !.outputs = ConvertToVaultOutputs(call.chain_outputs, ret.outputs)]
    /\ pc' = "done"
    /\ UNCHANGED <<call, storeVars>>

NextVault == GetOutputsFromMempool \/ GetOutputsFromChain

SpecVault == InitVault /\ [][NextVault]_vars

Returned(op) == pc = "done" /\ call.op = op

\* The inputs the reward-engine properties are stated for.
ValidAmbassadorCall ==
    /\ call.total_reward >= 0
    /\ \A i \in 1..Len(call.winners) : call.winners[i].anv >= 0
    /\ TotalANV(call.winners) > 0

RECURSIVE SumAmounts(_)
SumAmounts(rewards) ==
    IF rewards = <<>> THEN 0
    ELSE rewards[Len(rewards)].amount + SumAmounts(SubSeq(rewards, 1, Len(rewards) - 1))

\* C1: RewardAmbassadors conserves the pool. For a total reward >= 0 and
\* winners with ANVs >= 0 that sum to more than 0, no assertion on
\* total_rewarded or remainder fails, the returned amounts plus the remainder
\* equal the total reward, and 0 <= remainder <= total reward.
C1_PoolConserved ==
    (Returned("RewardAmbassadors") /\ ValidAmbassadorCall) =>
        /\ ~IsFault(ret)
        /\ SumAmounts(ret.winners) + ret.remainder = call.total_reward
        /\ 0 <= ret.remainder
        /\ ret.remainder <= call.total_reward

\* Three winners, some paid and some dropped, and part of the pool left over.
C1_Witness ==
    /\ Returned("RewardAmbassadors") /\ ValidAmbassadorCall
    /\ ~IsFault(ret)
    /\ Len(call.winners) = 3
    /\ Len(ret.winners) = 2
    /\ ret.remainder > 0
    /\ ret.remainder < call.total_reward

\* C2: for valid inputs at either precision the reward computed for each
\* winner is at most the total reward, so the per-winner assertion never fails.
C2_RewardAtMostTotal ==
    (Returned("RewardAmbassadors") /\ ValidAmbassadorCall) =>
        /\ \A i \in 1..Len(call.winners) :
              WinnerReward(call.winners[i], call.total_reward,
                           TotalANV(call.winners), FixedPrecision(call.height))
                  <= call.total_reward
        /\ ret # Fault("assert(reward <= total_reward)")

\* A single winner holding all the ANV is paid the whole pool at precision 1000.
C2_Witness ==
    /\ Returned("RewardAmbassadors") /\ ValidAmbassadorCall
    /\ call.height >= 16000
    /\ call.total_reward = 1000
    /\ \E i \in 1..Len(call.winners) :
          WinnerReward(call.winners[i], call.total_reward,
                       TotalANV(call.winners), 1000) = call.total_reward

\* The integer reference of the reward split.
RefPrecision(height) == IF height >= 16000 THEN 1000 ELSE 100

RECURSIVE RefTotalANV(_, _)
RefTotalANV(winners, n) ==
    IF n = 0 THEN 0 ELSE winners[n].anv + RefTotalANV(winners, n - 1)

RefReward(height, winners, total_reward, i) ==
    (total_reward *
        ((winners[i].anv * RefPrecision(height))
            \div RefTotalANV(winners, Len(winners))))
        \div RefPrecision(height)

RefRewards(height, winners, total_reward) ==
    LET all == [i \in 1..Len(winners) |->
                   [address_type |-> winners[i].address_type,
                    address |-> winners[i].address,
                    amount |-> RefReward(height, winners, total_reward, i)]]
    IN  SelectSeq(all, LAMBDA r : r.amount > 0)

ScenarioWinners ==
    <<[address_type |-> 1, address |-> "A", anv |-> 600],
      [address_type |-> 2, address |-> "B", anv |-> 400]>>

\* C3: RewardAmbassadors equals the integer reference. With P = 100 below
\* height 16000 and P = 1000 from height 16000 on, the output lists, in input
\* order, the winners whose floor(total * floor(anv * P / totalANV) / P) is
\* positive, each with that amount; ANVs 600 and 400 with total reward 1000 at
\* height 20000 give 600, 400 and remainder 0.
C3_EqualsReference ==
    (Returned("RewardAmbassadors") /\ ValidAmbassadorCall) =>
        /\ ~IsFault(ret)
        /\ ret.winners = RefRewards(call.height, call.winners, call.total_reward)
        /\ (call.winners = ScenarioWinners /\ call.total_reward = 1000
                /\ call.height = 20000) =>
              /\ Len(ret.winners) = 2
              /\ ret.winners[1].amount = 600
              /\ ret.winners[2].amount = 400
              /\ ret.remainder = 0

\* At the upgrade height itself the finer precision pays 333 where the coarser
\* one would pay 330, and a winner whose share rounds to nothing is dropped.
C3_Witness ==
    /\ Returned("RewardAmbassadors") /\ ValidAmbassadorCall
    /\ call.height = 16000
    /\ call.total_reward = 1000
    /\ Len(call.winners) = 3
    /\ Len(ret.winners) = 2
    /\ ret.winners[1].amount = 333
    /\ ret.winners[2].amount = 666

ValidInviteCall ==
    /\ call.params.daedalus_block_window >= 1
    /\ call.params.daedalus_max_invites_per_block >= 0
    /\ call.lottery.invites_used >= 0
    /\ call.lottery.invites_created >= 0

\* C4: the result of ComputeTotalInviteLotteryWinners is in
\* [0, maxInvitesPerBlock] for every height, window >= 1, maximum >= 0 and
\* aggregate with invites_used >= 0 and invites_created >= 0, in all regimes.
C4_ResultWithinMax ==
    (Returned("ComputeTotalInviteLotteryWinners") /\ ValidInviteCall) =>
        /\ ~IsFault(ret)
        /\ 0 <= ret.value
        /\ ret.value <= call.params.daedalus_max_invites_per_block

RefBootstrap ==
    call.height - call.params.start_block < call.params.daedalus_block_window

RefSteady ==
    (call.params.daedalus_max_invites_per_block
        * Min((call.lottery.invites_used * 100) \div call.lottery.invites_created, 100))
        \div 100

\* C5 as stated: the result follows the three-regime reference for every
\* input, the last regime being invites_used > 0 with invites_created > 0.
C5_ThreeRegimesOnly ==
    (Returned("ComputeTotalInviteLotteryWinners") /\ ValidInviteCall) =>
        /\ ~IsFault(ret)
        /\ \/ RefBootstrap
              /\ ret.value = call.params.daedalus_max_invites_per_block
           \/ ~RefBootstrap
              /\ call.lottery.invites_used = 0 /\ call.lottery.invites_created = 0
              /\ ret.value = 1
           \/ ~RefBootstrap
              /\ call.lottery.invites_used = 0 /\ call.lottery.invites_created > 0
              /\ ret.value = 0
           \/ ~RefBootstrap
              /\ call.lottery.invites_used > 0 /\ call.lottery.invites_created > 0
              /\ ret.value = RefSteady

\* C5: for invites_used >= 0 and invites_created >= 0 the result is the
\* maximum while period < 1; then 1 or 0 when no invite was used (none created,
\* some created); then floor(max * min(floor(used * 100 / created), 100) / 100)
\* when invites were used and created, which is the maximum when used equals
\* created; and the maximum when invites were used but none created.
C5_EqualsReference ==
    (Returned("ComputeTotalInviteLotteryWinners") /\ ValidInviteCall) =>
        /\ ~IsFault(ret)
        /\ ret.value =
              IF RefBootstrap THEN call.params.daedalus_max_invites_per_block
              ELSE IF call.lottery.invites_used = 0
              THEN (IF call.lottery.invites_created = 0 THEN 1 ELSE 0)
              ELSE IF call.lottery.invites_created > 0 THEN RefSteady
              ELSE call.params.daedalus_max_invites_per_block
        /\ (~RefBootstrap /\ call.lottery.invites_used > 0
                /\ call.lottery.invites_used = call.lottery.invites_created) =>
              ret.value = call.params.daedalus_max_invites_per_block

\* Past the bootstrap window with invites used and none created: the velocity
\* is taken as 100 and the whole maximum is returned.
C5_Witness ==
    /\ Returned("ComputeTotalInviteLotteryWinners") /\ ValidInviteCall
    /\ ~RefBootstrap
    /\ call.lottery.invites_created = 0
    /\ call.lottery.invites_used > 0
    /\ call.params.daedalus_max_invites_per_block = 3
    /\ ret = Returns(3)

\* C6: RewardInvites on N confirmed winners returns exactly N entries, entry i
\* carrying the address type and address of winner i and one invite.
C6_OneInvitePerWinner ==
    Returned("RewardInvites") =>
        /\ ~IsFault(ret)
        /\ Len(ret.value) = Len(call.winners)
        /\ \A i \in 1..Len(call.winners) :
              /\ ret.value[i].address_type = call.winners[i].address_type
              /\ ret.value[i].address = call.winners[i].address
              /\ ret.value[i].invites = 1

\* Three winners of different address types, each given its one invite.
C6_Witness ==
    /\ Returned("RewardInvites")
    /\ Len(call.winners) = 3
    /\ call.winners[1].address_type # call.winners[3].address_type
    /\ Len(ret.value) = 3
    /\ ret.value[3].invites = 1

\* C9: deserializing a referral whose decoded pubkey is not valid ends, for
\* Referral and MutableReferral alike, in a typed InvalidKey failure that
\* rejects the referral, never in an abort of the process.
C9_InvalidKeyRejected ==
    ((Returned("MutableReferral(deserialize)") \/ Returned("Referral(deserialize)"))
        /\ ~call.s.pubkey.well_formed) =>
        ret = [error |-> "InvalidKey"]

C8_ReservoirBounded ==
    /\ Cardinality(lottery_heap) <= MaxReservoirSize
    /\ (~undone /\ Cardinality(offered) > MaxReservoirSize) =>
          Cardinality(lottery_heap) = MaxReservoirSize

\* More candidates than the capacity were offered, the last one evicting the
\* minimum.
C8_Witness ==
    /\ ~undone
    /\ pc = "replaced"
    /\ Cardinality(offered) > MaxReservoirSize
    /\ Cardinality(lottery_heap) = MaxReservoirSize

\* C10: the stored ANV of every address is never negative, whatever signed
\* deltas updateANV is called with, a first call on an absent address included.
C10_ANVNeverNegative ==
    \A r \in anv_db : r.anv >= 0

\* The reservoir holds the best of the offered candidates: as many as were
\* offered up to the capacity, all of them offered, none with a key below that
\* of a candidate left out.
HoldsLargestKeys(heap, candidates) ==
    /\ heap \subseteq candidates
    /\ Cardinality(heap) = Min(Cardinality(candidates), MaxReservoirSize)
    /\ \A e \in heap : \A c \in candidates \ heap : e.key >= c.key

\* C11: after any sequence of addAddressToLottery calls offering N distinct
\* candidates to the empty reservoir of capacity C, with no undo in between,
\* the reservoir holds min(N, C) of them, every entrant's key being at least
\* the key of every candidate discarded or evicted; and a candidate whose key
\* only equals the minimum of the full reservoir does not displace it.
C11_LargestKeysKept ==
    [][~undone' =>
          /\ HoldsLargestKeys(lottery_heap', offered')
          /\ \A c \in offered' \ offered :
                (/\ Cardinality(lottery_heap) = MaxReservoirSize
                 /\ \E m \in lottery_heap :
                       /\ \A e \in lottery_heap : m.key <= e.key
                       /\ c.key = m.key) =>
                    lottery_heap' = lottery_heap]_vars

\* Candidates of distinct addresses, two more than the capacity, were offered
\* with no undo: one was evicted and the last one, carrying the key of the
\* minimum entrant, was discarded.
C11_Witness ==
    /\ ~undone
    /\ pc = "discarded"
    /\ Cardinality(offered) > MaxReservoirSize + 1
    /\ Len(undos) > MaxReservoirSize
    /\ \A c, d \in offered : c.address = d.address => c = d
    /\ \E c \in offered \ lottery_heap :
          \E e \in lottery_heap :
              /\ c.key = e.key
              /\ \A f \in lottery_heap : e.key <= f.key

\* The out-points of the non-spending entries of a transaction list, in order.
RECURSIVE RefOutPoints(_)
RefOutPoints(txns) ==
    IF txns = <<>> THEN <<>>
    ELSE (IF Head(txns).first.spending THEN <<>>
          ELSE <<[hash |-> Head(txns).first.txhash, n |-> Head(txns).first.index]>>)
         \o RefOutPoints(Tail(txns))

\* C12: ConvertToVaultOutputs appends. Called on outputs holding m entries
\* with a list of c non-spending transactions it leaves m + c entries, the
\* first m unchanged and the last c the out-points of those transactions in
\* order; so in FindUnspentVaultCoins the out-points collected from the mempool
\* are still present once the chain outputs are added.
C12_ConvertAppends ==
    /\ (pc = "mempool" /\ call.op = "FindUnspentVaultCoins") =>
          ret.outputs = RefOutPoints(ret.filtered_mempool_outputs)
    /\ (pc = "done" /\ call.op = "FindUnspentVaultCoins") =>
          /\ ret.outputs =
                ret.mempool_converted \o RefOutPoints(call.chain_outputs)
          /\ \A i \in 1..Len(ret.mempool_converted) :
                \E j \in 1..Len(ret.outputs) :
                    ret.outputs[j] = ret.mempool_converted[i]
====
